---- MODULE Spec2Model ----
(***************************************************************************)
(* freud: environment::LocalDescriptors (LocalDescriptors.h/.cc) and the   *)
(* constructor of order::RotationalAutocorrelation                         *)
(* (RotationalAutocorrelation.h).                                          *)
(*                                                                         *)
(* Spec   : one LocalDescriptors instance, a sequence of compute() calls;  *)
(*          the parallel_for body is run by tasks over a partition of      *)
(*          [0, Nref) that interleave bond by bond.                        *)
(* SpecSeq, SpecSeqValid : longer sequences of calls, one task per call    *)
(*          (SpecSeqValid: only calls in a mode of the enum).              *)
(* SpecRA : one RotationalAutocorrelation instance: the constructor's      *)
(*          factorial loop, then compute() calls.                          *)
(*                                                                         *)
(* C++ indices are 0-based; TLA+ sequences are 1-based, so bond b of the   *)
(* neighbor list is refs[b + 1] and slot s of the buffer is data[s + 1].   *)
(***************************************************************************)
EXTENDS Integers, Sequences, FiniteSets

\* ------------------------------------------------------------------ bounds
MaxLmax  == 1      \* lmax is drawn from 0..MaxLmax
MaxRef   == 2      \* Nref is drawn from 0..MaxRef
MaxBonds == 3      \* neighbor lists hold at most MaxBonds bonds
MaxNeigh == 2      \* nNeigh is drawn from 0..MaxNeigh
MaxNp    == 1      \* Np is drawn from 0..MaxNp
MaxCalls == 2      \* Spec: compute() calls per behaviour
MaxSeqCalls == 3   \* SpecSeq: compute() calls per behaviour
MaxSeqRef == 1     \* SpecSeq: Nref is drawn from 0..MaxSeqRef
MaxL     == 13     \* RotationalAutocorrelation: l is drawn from 0..MaxL
MaxN     == 2      \* RotationalAutocorrelation::compute: N is drawn from 0..MaxN

\* ------------------------------------------------------- LocalDescriptors
VARIABLES
    m_lmax,        \* unsigned int m_lmax
    m_negative_m,  \* bool m_negative_m
    m_Nref,        \* unsigned int m_Nref
    m_nSphs,       \* unsigned int m_nSphs
    m_sphArray,    \* the shared_ptr: [id, data]; id 0 is the null pointer
    pc,            \* "idle" | "running": compute() is between calls / in its parallel pass
    outcome,       \* how the last call ended: "none" | "running" | "ok" | "InvalidArgument" | "UnsupportedMode"
    ncalls,        \* number of compute() calls started
    call,          \* the arguments of the running call
    ranges,        \* the blocked_range handed to each task: <<begin, end>>
    task,          \* each task's locals: i, bond, count, frame and its position
    sph_eval,      \* each fsph::PointSPHEvaluator: the bond it was last computed for
    pre,           \* the members as they were when the running call was entered
    wlog,          \* the slots the running call has written and who wrote them
    oob            \* a write went outside the allocation

\* ---------------------------------------------- RotationalAutocorrelation
VARIABLES
    ra_pc,         \* "new" | "ctor" | "ready"
    m_l,           \* unsigned int m_l
    m_factorials,  \* the unsigned int array, each entry a 32-bit value <<hi16, lo16>>
    ctor_i,        \* the constructor loop's i
    m_N            \* unsigned int m_N

ldvars == <<m_lmax, m_negative_m, m_Nref, m_nSphs, m_sphArray, pc, outcome,
            ncalls, call, ranges, task, sph_eval, pre, wlog, oob>>
ravars == <<ra_pc, m_l, m_factorials, ctor_i, m_N>>
vars == <<ldvars, ravars>>

\* enum LocalDescriptorOrientation
LocalNeighborhood == 0
Global == 1
ParticleLocal == 2
\* every value the enum's underlying type lets a caller pass in this model
Orientations == {LocalNeighborhood, Global, ParticleLocal, ParticleLocal + 1}

Min(S) == CHOOSE x \in S : \A y \in S : x <= y

\* fsph::sphCount(lmax): the number of (l, m) with 0 <= m <= l <= lmax
sphCount(lmax) == ((lmax + 1) * (lmax + 2)) \div 2

\* LocalDescriptors::getSphWidth
getSphWidthOf(lmax, negative_m) ==
    sphCount(lmax) + (IF lmax > 0 /\ negative_m THEN sphCount(lmax - 1) ELSE 0)

getSphWidth == getSphWidthOf(m_lmax, m_negative_m)

\* The (l, m) pairs a PointSPHEvaluator<float>(lmax) yields between
\* begin(negative_m) and end(): all m >= 0, and the m < 0 when asked for.
EvalPairs(lmax, negative_m) ==
    {p \in (0..lmax) \X ((-lmax)..lmax) :
        /\ p[2] <= p[1]
        /\ -p[2] <= p[1]
        /\ (p[2] < 0 => negative_m)}

EvalLength(lmax, negative_m) == Cardinality(EvalPairs(lmax, negative_m))

\* ------------------------------------------------------- the neighbor list
\* A neighbor list is a sequence of bonds <<i, j>> grouped by ascending i.
IsSorted(nl) == \A a, b \in 1..Len(nl) : a < b => nl[a][1] <= nl[b][1]

NLists ==
    UNION {{nl \in [1..n -> (0..(MaxRef - 1)) \X (0..(MaxNp - 1))] : IsSorted(nl)} :
           n \in 0..MaxBonds}

\* NeighborList::validate(Nref, Np): every bond's endpoints are in range
validate(nl, Nref, Np) ==
    \A k \in 1..Len(nl) : nl[k][1] < Nref /\ nl[k][2] < Np

\* NeighborList::getNumBonds
getNumBonds(nl) == Len(nl)

\* NeighborList::find_first_index(i): the offset of i's first bond; for an i
\* without bonds either the bond count or the offset of the first bond of a
\* later reference index, whichever the list's search returns.
\* (refs holds the reference index of every bond.)
find_first_index(refs, i) ==
    LET own   == {b \in 0..(Len(refs) - 1) : refs[b + 1] = i}
        later == {b \in 0..(Len(refs) - 1) : refs[b + 1] > i}
    IN  IF own # {} THEN {Min(own)}
        ELSE {Len(refs)} \cup (IF later # {} THEN {Min(later)} ELSE {})

\* blocked_range<size_t>(0, Nref) split at the cut points into the ranges
\* the tasks get; an empty range gives no task.
Partition(Nref, cuts) ==
    LET pts == {0, Nref} \cup cuts
        nxt(a) == Min({p \in pts : p > a})
        RECURSIVE build(_)
        build(a) == IF a >= Nref THEN <<>>
                    ELSE <<<<a, nxt(a)>>>> \o build(nxt(a))
    IN  IF Nref = 0 THEN <<>> ELSE build(0)

CutSets(Nref) == SUBSET (1..(Nref - 1))

\* neighbor_list[2 * bond], for every bond of the list
RefsOf(nl) == [k \in 1..Len(nl) |-> nl[k][1]]

NoCall == [refs |-> <<>>, Nref |-> 0, nNeigh |-> 0, orientation |-> Global]
NullArray == [id |-> 0, data |-> <<>>]
\* a slot no bond was copied into: complex<float>() as operator new[] leaves it
Blank == <<0, 0, 0>>

Capacity == Len(m_sphArray.data)
Members == [sphArray |-> m_sphArray, Nref |-> m_Nref, nSphs |-> m_nSphs]
NoMembers == [sphArray |-> NullArray, Nref |-> 0, nSphs |-> 0]

\* ------------------------------------------------------------ construction
\* LocalDescriptors::LocalDescriptors(lmax, negative_m)
InitLD(lmaxs, negative_ms) ==
    /\ m_lmax \in lmaxs
    /\ m_negative_m \in negative_ms
    /\ m_Nref = 0
    /\ m_nSphs = 0
    /\ m_sphArray = NullArray
    /\ pc = "idle"
    /\ outcome = "none"
    /\ ncalls = 0
    /\ call = NoCall
    /\ ranges = <<>>
    /\ task = <<>>
    /\ sph_eval = <<>>
    /\ pre = NoMembers
    /\ wlog = {}
    /\ oob = FALSE

\* no RotationalAutocorrelation object yet
InitRA ==
    /\ ra_pc = "new"
    /\ m_l = 0
    /\ m_factorials = <<>>
    /\ ctor_i = 0
    /\ m_N = 0

Init == InitLD(0..MaxLmax, BOOLEAN) /\ InitRA

\* ------------------------------------------------- compute(): up to the pass
\* (mutant) reallocate whenever the size differs
NeedsRealloc_NotEqual(numBonds) == m_nSphs # numBonds

\* if (m_nSphs < nlist->getNumBonds())
NeedsRealloc(numBonds) == m_nSphs < numBonds

\* (mutant) one slot per bond
AllocLength_NoWidth(numBonds) == numBonds

\* new complex<float>[nlist->getNumBonds() * getSphWidth()]
AllocLength(numBonds) == numBonds * getSphWidth

\* the array a call with numBonds bonds works on
ArrayFor(numBonds) ==
    IF NeedsRealloc(numBonds)
    THEN [id |-> m_sphArray.id + 1,
          data |-> [s \in 1..AllocLength(numBonds) |-> Blank]]
    ELSE m_sphArray

\* (mutant) validate called after the reallocation
ArrayOnInvalid_Realloc(numBonds) == ArrayFor(numBonds)

\* m_sphArray after a call that validate() ended: validate is compute()'s
\* first statement, so the reallocation below it has not run
ArrayOnInvalid(numBonds) == m_sphArray

\* the task's locals before it takes its first particle
NewTask(r) == [i |-> r[1], phase |-> "enter", bond |-> 0, count |-> 0, frame |-> <<>>]

\* compute(): validate, reallocate, hand the ranges to parallel_for
Begin(nl, Nref, Np, nNeigh, orientation, cuts) ==
    /\ pc = "idle"
    /\ ncalls' = ncalls + 1
    /\ IF ~validate(nl, Nref, Np)
       THEN \* validate throws: nothing below it runs
            /\ outcome' = "InvalidArgument"
            /\ m_sphArray' = ArrayOnInvalid(getNumBonds(nl))
            /\ UNCHANGED <<pc, call, ranges, task, sph_eval, pre>>
       ELSE /\ m_sphArray' = ArrayFor(getNumBonds(nl))
            /\ call' = [refs |-> RefsOf(nl), Nref |-> Nref, nNeigh |-> nNeigh,
                        orientation |-> orientation]
            /\ ranges' = Partition(Nref, cuts)
            /\ task' = [t \in 1..Len(Partition(Nref, cuts)) |->
                            NewTask(Partition(Nref, cuts)[t])]
            /\ sph_eval' = [t \in 1..Len(Partition(Nref, cuts)) |-> <<>>]
            /\ pre' = Members
            /\ pc' = "running"
            /\ outcome' = "running"
    /\ UNCHANGED <<m_lmax, m_negative_m, m_Nref, m_nSphs, wlog, oob, ravars>>

\* ------------------------------------------------ compute(): the parallel pass
Tasks == 1..Len(ranges)
numBonds == Len(call.refs)

\* (mutant) one evaluator hoisted out of the lambda and shared
EvaluatorOf_Shared(t) == 1

\* fsph::PointSPHEvaluator<float> sph_eval(m_lmax) is a local of the lambda:
\* the evaluator task t computes into and copies from
EvaluatorOf(t) == t

\* the bonds the LocalNeighborhood loop adds to the inertia tensor
InertiaBonds(i, bond) ==
    {bc \in bond..(numBonds - 1) :
        /\ \A b \in bond..bc : call.refs[b + 1] = i
        /\ bc < bond + call.nNeigh}

\* rotation_0, rotation_1, rotation_2 of particle i, by what they are made from
Frame(i, bond) ==
    IF call.orientation = LocalNeighborhood
        THEN <<"eigenvectors", Cardinality(InertiaBonds(i, bond))>>
    ELSE IF call.orientation = ParticleLocal THEN <<"conj(q_ref)", i>>
    ELSE IF call.orientation = Global THEN <<"identity", 0>>
    ELSE <<"throw", 0>>

\* (mutant) the loop does not stop at nNeigh
LoopGuard_NoCount(bond, count, i) ==
    /\ bond < numBonds
    /\ call.refs[bond + 1] = i

\* (mutant) the loop does not stop at the next particle's bonds
LoopGuard_NoRef(bond, count, i) ==
    /\ bond < numBonds
    /\ count < call.nNeigh

\* bond < nlist->getNumBonds() && neighbor_list[2 * bond] == i && count < nNeigh
LoopGuard(bond, count, i) ==
    /\ bond < numBonds
    /\ call.refs[bond + 1] = i
    /\ count < call.nNeigh

\* const unsigned int sphCount(bond * getSphWidth()): where bond's values go
CopyOffset(bond) == bond * getSphWidth

\* the bond loop's test: stay in the loop, or ++i and, at br.end(), leave
LoopTest(tk, end) ==
    IF LoopGuard(tk.bond, tk.count, tk.i) THEN tk
    ELSE [tk EXCEPT !.i = @ + 1,
                    !.phase = IF tk.i + 1 = end THEN "done" ELSE "enter"]

\* the locals go out of scope when compute() returns or throws
EndCall ==
    /\ pc' = "idle"
    /\ call' = NoCall
    /\ ranges' = <<>>
    /\ task' = <<>>
    /\ sph_eval' = <<>>
    /\ pre' = NoMembers
    /\ wlog' = {}

\* the task takes particle i: find_first_index, then the frame or the throw
TaskEnter(t) ==
    /\ pc = "running"
    /\ t \in Tasks
    /\ task[t].phase = "enter"
    /\ \E bond \in find_first_index(call.refs, task[t].i) :
        LET fr == Frame(task[t].i, bond) IN
        IF fr[1] = "throw"
        THEN \* the exception leaves parallel_for and compute()
             /\ outcome' = "UnsupportedMode"
             /\ EndCall
        ELSE /\ task' = [task EXCEPT ![t] =
                            LoopTest([@ EXCEPT !.phase = "loop", !.bond = bond,
                                               !.count = 0, !.frame = fr],
                                     ranges[t][2])]
             /\ UNCHANGED <<pc, outcome, call, ranges, sph_eval, pre, wlog>>
    /\ UNCHANGED <<m_lmax, m_negative_m, m_Nref, m_nSphs, m_sphArray, ncalls,
                   oob, ravars>>

\* sph_eval.compute(phi, theta) for the bond the loop is at
TaskEval(t) ==
    /\ pc = "running"
    /\ t \in Tasks
    /\ task[t].phase = "loop"
    /\ sph_eval' = [sph_eval EXCEPT ![EvaluatorOf(t)] = <<ncalls, task[t].bond>>]
    /\ task' = [task EXCEPT ![t].phase = "copy"]
    /\ UNCHANGED <<m_lmax, m_negative_m, m_Nref, m_nSphs, m_sphArray, pc, outcome,
                   ncalls, call, ranges, pre, wlog, oob, ravars>>

\* the slots std::copy(sph_eval.begin(m_negative_m), sph_eval.end(), &sph_array[sphCount]) writes
CopySlots(bond) ==
    {CopyOffset(bond) + k : k \in 0..(EvalLength(m_lmax, m_negative_m) - 1)}

\* std::copy, then ++bond, ++count and the loop's test
TaskCopy(t) ==
    /\ pc = "running"
    /\ t \in Tasks
    /\ task[t].phase = "copy"
    /\ LET src   == sph_eval[EvaluatorOf(t)]
           slots == CopySlots(task[t].bond)
       IN  /\ m_sphArray' =
                [m_sphArray EXCEPT !.data =
                    [s \in 1..Len(m_sphArray.data) |->
                        IF (s - 1) \in slots
                        THEN <<src[1], src[2], (s - 1) - CopyOffset(task[t].bond)>>
                        ELSE m_sphArray.data[s]]]
           /\ wlog' = wlog \cup {[task |-> t, ref |-> task[t].i, bond |-> task[t].bond,
                                  slot |-> s] : s \in slots}
           /\ oob' = (oob \/ \E s \in slots : s >= Len(m_sphArray.data))
    /\ task' = [task EXCEPT ![t] =
                    LoopTest([@ EXCEPT !.phase = "loop", !.bond = @ + 1, !.count = @ + 1],
                             ranges[t][2])]
    /\ UNCHANGED <<m_lmax, m_negative_m, m_Nref, m_nSphs, pc, outcome, ncalls, call,
                   ranges, sph_eval, pre, ravars>>

\* every task has left its range
PassDone == pc = "running" /\ \A t \in Tasks : task[t].phase = "done"

\* parallel_for returns: m_Nref = Nref; m_nSphs = nlist->getNumBonds()
Join ==
    /\ PassDone
    /\ m_Nref' = call.Nref
    /\ m_nSphs' = numBonds
    /\ outcome' = "ok"
    /\ EndCall
    /\ UNCHANGED <<m_lmax, m_negative_m, m_sphArray, ncalls, oob, ravars>>

Next ==
    \/ /\ ncalls < MaxCalls
       /\ \E nl \in NLists, Nref \in 0..MaxRef, Np \in 0..MaxNp, nNeigh \in 0..MaxNeigh,
             orientation \in Orientations :
             \E cuts \in CutSets(Nref) : Begin(nl, Nref, Np, nNeigh, orientation, cuts)
    \/ \E t \in Tasks : TaskEnter(t)
    \/ \E t \in Tasks : TaskEval(t)
    \/ \E t \in Tasks : TaskCopy(t)
    \/ Join

\* compute() calls one after the other, their tasks interleaving
Spec == Init /\ [][Next]_vars

\* Longer sequences of calls, each run by one task over [0, Nref).
NextSeq ==
    \/ /\ ncalls < MaxSeqCalls
       /\ \E nl \in NLists, Nref \in 0..MaxSeqRef, Np \in 0..MaxNp, nNeigh \in 0..MaxNeigh,
             orientation \in Orientations :
             Begin(nl, Nref, Np, nNeigh, orientation, {})
    \/ \E t \in Tasks : TaskEnter(t)
    \/ \E t \in Tasks : TaskEval(t)
    \/ \E t \in Tasks : TaskCopy(t)
    \/ Join

SpecSeq == Init /\ [][NextSeq]_vars

\* The same, with every call in a mode of the enum: no call throws in the pass.
NextSeqValid ==
    \/ /\ ncalls < MaxSeqCalls
       /\ \E nl \in NLists, Nref \in 0..MaxSeqRef, Np \in 0..MaxNp, nNeigh \in 0..MaxNeigh,
             orientation \in {LocalNeighborhood, ParticleLocal, Global} :
             Begin(nl, Nref, Np, nNeigh, orientation, {})
    \/ \E t \in Tasks : TaskEnter(t)
    \/ \E t \in Tasks : TaskEval(t)
    \/ \E t \in Tasks : TaskCopy(t)
    \/ Join

SpecSeqValid == Init /\ [][NextSeqValid]_vars

\* ================================================================== claims
ValidModes == {LocalNeighborhood, ParticleLocal, Global}
Width == getSphWidth

\* the position of bond b among the bonds of its reference particle
Rank(refs, b) == Cardinality({c \in 0..(b - 1) : refs[c + 1] = refs[b + 1]})

\* reference particle i has no bond in the list
ZeroBond(refs, i) == \A b \in 0..(Len(refs) - 1) : refs[b + 1] # i

\* the step in which compute() returns normally
Returns == PassDone /\ outcome' = "ok"
\* the step in which the mode's exception leaves compute()
ThrowsMode == pc = "running" /\ outcome' = "UnsupportedMode"

\* ---- C1 --------------------------------------------------------------------
\* C1 (as claimed): over any sequence of compute() calls the capacity of the
\* buffer never decreases.
C1_CapacityNeverShrinks ==
    [][Len(m_sphArray'.data) >= Len(m_sphArray.data)]_vars

\* ---- C2 --------------------------------------------------------------------
\* C2 (as claimed): when a call fails with UnsupportedMode, the buffer (its
\* identity, capacity and contents), m_Nref and m_nSphs are what they were
\* when the call was entered.
C2_ModeFailureMutatesNothing ==
    [][ThrowsMode => (m_sphArray' = pre.sphArray /\ m_Nref' = pre.Nref
                        /\ m_nSphs' = pre.nSphs)]_vars

\* ---- C3 --------------------------------------------------------------------
\* C3: a call that validate(Nref, Np) stops (it is entered and has returned
\* without reaching the parallel pass) ends with InvalidArgument and changes
\* no member: the buffer is neither replaced nor written, and getNP() and
\* getNSphs() return what they returned before.
C3_InvalidListMutatesNothing ==
    [][(pc = "idle" /\ ncalls' # ncalls /\ pc' = "idle") =>
        /\ outcome' = "InvalidArgument"
        /\ m_sphArray' = m_sphArray
        /\ m_Nref' = m_Nref
        /\ m_nSphs' = m_nSphs]_vars

\* a validation failure that followed a successful call with bonds
C3_Witness ==
    /\ pc = "idle"
    /\ outcome = "InvalidArgument"
    /\ m_nSphs > 0
    /\ \A s \in 1..(m_nSphs * Width) : m_sphArray.data[s] # Blank

\* ---- C4 --------------------------------------------------------------------
\* C4 (as claimed): a call whose orientation is none of LocalNeighborhood,
\* ParticleLocal, Global never returns normally, whatever Nref and the
\* neighbor list are.
C4_BadModeNeverReturns ==
    [][(pc = "running" /\ call.orientation \notin ValidModes) => outcome' # "ok"]_vars

\* ---- C5 --------------------------------------------------------------------
\* C5 (as claimed): after every successful call every slot of every bond in
\* [0, getNSphs()) was written during that call.
C5_WholePrefixWritten ==
    (pc = "idle" /\ outcome = "ok")
        => \A s \in 1..(m_nSphs * Width) : m_sphArray.data[s][1] = ncalls

\* C5 (amended): when a call returns, the slots written during that call are
\* exactly the slots of the bonds that are among the first nNeigh bonds of
\* their reference particle, each holding the values evaluated for that bond,
\* and getNSphs() is the call's bond count; the whole prefix is written when
\* no reference particle has more than nNeigh bonds.
C5_WrittenUpToNNeigh ==
    [][Returns =>
        /\ m_nSphs' = numBonds
        /\ \A b \in 0..(numBonds - 1), k \in 0..(Width - 1) :
              LET v == m_sphArray'.data[b * Width + k + 1]
              IN  IF Rank(call.refs, b) < call.nNeigh
                  THEN v = <<ncalls, b, k>>
                  ELSE v[1] # ncalls
        /\ \A s \in (numBonds * Width + 1)..Len(m_sphArray'.data) :
              m_sphArray'.data[s][1] # ncalls]_vars

\* a second call has returned with the whole prefix written by it
C5_Witness ==
    /\ pc = "idle"
    /\ outcome = "ok"
    /\ ncalls = 2
    /\ m_nSphs >= 2
    /\ \A s \in 1..(m_nSphs * Width) : m_sphArray.data[s][1] = ncalls

\* ---- C6 --------------------------------------------------------------------
\* C6: on a fresh instance, when the first call returned with b1 bonds and the
\* second returns with b2 < b1 bonds, the buffer is still the one the first
\* call allocated, its capacity is b1 * sphWidth, and getNSphs() is b2.
C6_SmallerSecondCallReuses ==
    [][(Returns /\ ncalls = 2 /\ numBonds < pre.nSphs) =>
        /\ pre.sphArray.id = 1
        /\ m_sphArray'.id = pre.sphArray.id
        /\ Len(m_sphArray'.data) = pre.nSphs * Width
        /\ m_nSphs' = numBonds]_vars

\* the second call returned with fewer bonds than the first
C6_Witness ==
    /\ pc = "idle"
    /\ outcome = "ok"
    /\ ncalls = 2
    /\ m_nSphs > 0
    /\ m_sphArray.id = 1
    /\ Capacity > m_nSphs * Width

\* ---- C8 --------------------------------------------------------------------
\* C8: a reference particle without bonds writes nothing and does not make
\* the call fail, in every mode of the enum and whichever offset
\* find_first_index returns for it; when the pass is over, the first nNeigh
\* bonds of every other reference particle have been written by it.
C8_ZeroBondState ==
    pc = "running" =>
        /\ \A e \in wlog : ~ZeroBond(call.refs, e.ref)
        /\ PassDone =>
              \A b \in 0..(numBonds - 1) :
                  Rank(call.refs, b) < call.nNeigh =>
                      \E e \in wlog : e.bond = b /\ e.ref = call.refs[b + 1]

\* C8: the above in every state, and the only call that throws in the pass is
\* one whose mode is outside the enum.
C8_NoBondParticleIsHarmless ==
    /\ []C8_ZeroBondState
    /\ [][ThrowsMode => call.orientation \notin ValidModes]_vars

\* the pass is over in LocalNeighborhood mode: particle 0 had no bonds,
\* a later one had, and these were written
C8_Witness ==
    /\ PassDone
    /\ call.orientation = LocalNeighborhood
    /\ call.Nref >= 2
    /\ ZeroBond(call.refs, 0)
    /\ wlog # {}

\* ---- C9 --------------------------------------------------------------------
\* C9: during a call no slot is written by two tasks; what is written for
\* reference particle i are bonds of i, among its first nNeigh, by the task
\* whose range holds i; bond b is written into [b * sphWidth, (b+1) * sphWidth)
\* only, with the values its task's own evaluator computed for b.
C9_DisjointWrites ==
    pc = "running" =>
        /\ \A e, f \in wlog : e.slot = f.slot => e.task = f.task
        /\ \A e \in wlog :
              /\ call.refs[e.bond + 1] = e.ref
              /\ Rank(call.refs, e.bond) < call.nNeigh
              /\ ranges[e.task][1] <= e.ref /\ e.ref < ranges[e.task][2]
              /\ e.bond * Width <= e.slot /\ e.slot < (e.bond + 1) * Width
              /\ m_sphArray.data[e.slot + 1] = <<ncalls, e.bond, e.slot - e.bond * Width>>

\* two tasks have both written, and one is between compute and copy
C9_Witness ==
    /\ pc = "running"
    /\ \E e, f \in wlog : e.task # f.task
    /\ \E t \in Tasks : task[t].phase = "copy"

\* ---- C10 -------------------------------------------------------------------
\* C10: during the parallel pass of every call the buffer holds at least
\* numBonds * sphWidth slots, and no write has gone outside the allocation.
C10_WritesInBounds ==
    /\ ~oob
    /\ pc = "running" =>
          /\ Capacity >= numBonds * Width
          /\ \A e \in wlog : e.slot < Capacity

\* a third call, smaller than the buffer it found, has written
C10_Witness ==
    /\ pc = "running"
    /\ ncalls = 3
    /\ wlog # {}
    /\ m_sphArray = [pre.sphArray EXCEPT !.data = m_sphArray.data]
    /\ Capacity > numBonds * Width


\* ---------------------------------------------- RotationalAutocorrelation
\* unsigned int is 32 bits wide: a value is <<high 16 bits, low 16 bits>>
Limb == 2 ^ 16
U32(n) == <<(n \div Limb) % Limb, n % Limb>>

\* i * f in unsigned int arithmetic, that is modulo 2^32 (i is small)
U32Mul(i, f) ==
    LET lo == i * f[2]
        hi == i * f[1] + (lo \div Limb)
    IN  <<hi % Limb, lo % Limb>>

\* (mutant) off by one in the factor
FactorialEntry_Next(i, prev) == U32Mul(i + 1, prev)

\* m_factorials.get()[i] = i * m_factorials.get()[i - 1]
FactorialEntry(i, prev) == U32Mul(i, prev)

\* new unsigned int[m_l + 1], memset to 0, then entry 0 = 1
FirstFactorials(l) == [k \in 1..(l + 1) |-> IF k = 1 THEN U32(1) ELSE U32(0)]

\* RotationalAutocorrelation(unsigned int l), up to the loop
Construct(l) ==
    /\ ra_pc = "new"
    /\ m_l' = l
    /\ m_N' = 0
    /\ m_factorials' = FirstFactorials(l)
    /\ ctor_i' = 1
    /\ ra_pc' = "ctor"
    /\ UNCHANGED ldvars

\* one turn of for (unsigned int i = 1; i <= m_l; i++)
CtorStep ==
    /\ ra_pc = "ctor"
    /\ ctor_i <= m_l
    /\ m_factorials' = [m_factorials EXCEPT ![ctor_i + 1] =
                            FactorialEntry(ctor_i, m_factorials[ctor_i])]
    /\ ctor_i' = ctor_i + 1
    /\ UNCHANGED <<ra_pc, m_l, m_N, ldvars>>

\* the loop ends and the constructor returns
CtorReturn ==
    /\ ra_pc = "ctor"
    /\ ctor_i > m_l
    /\ ra_pc' = "ready"
    /\ UNCHANGED <<m_l, m_factorials, ctor_i, m_N, ldvars>>

\* compute(ref_ors, ors, N): reads the factorials, stores N and the results
RACompute(N) ==
    /\ ra_pc = "ready"
    /\ m_N' = N
    /\ UNCHANGED <<ra_pc, m_l, m_factorials, ctor_i, ldvars>>

NextRA ==
    \/ \E l \in 0..MaxL : Construct(l)
    \/ CtorStep
    \/ CtorReturn
    \/ \E N \in 0..MaxN : RACompute(N)

\* (the LocalDescriptors instance beside it is left alone)
InitWithRA == InitLD({0}, {FALSE}) /\ InitRA

SpecRA == InitWithRA /\ [][NextRA]_vars

\* ---- C7 --------------------------------------------------------------------
\* Natural numbers of any size, as their base-2^16 digits, lowest first and
\* without leading zeros: what a factorial is as a mathematical integer.
RECURSIVE BigMul(_, _, _)
BigMul(i, digits, carry) ==
    IF digits = <<>>
    THEN (IF carry = 0 THEN <<>> ELSE <<carry % Limb>> \o BigMul(i, <<>>, carry \div Limb))
    ELSE LET p == i * Head(digits) + carry
         IN  <<p % Limb>> \o BigMul(i, Tail(digits), p \div Limb)

RECURSIVE Strip(_)
Strip(digits) ==
    IF digits # <<>> /\ digits[Len(digits)] = 0
    THEN Strip(SubSeq(digits, 1, Len(digits) - 1)) ELSE digits

RECURSIVE Factorial(_)
Factorial(i) == IF i = 0 THEN <<1>> ELSE Strip(BigMul(i, Factorial(i - 1), 0))

\* the mathematical integer an unsigned int holds
ValueOf(u) == Strip(<<u[2], u[1]>>)

\* a mathematical integer modulo 2^32, as an unsigned int
Mod2to32(digits) ==
    <<IF Len(digits) >= 2 THEN digits[2] ELSE 0, IF Len(digits) >= 1 THEN digits[1] ELSE 0>>

\* the entries the constructor has filled in so far
Filled == IF ra_pc = "ready" THEN 0..m_l
          ELSE IF ra_pc = "ctor" THEN 0..(ctor_i - 1) ELSE {}

\* C7 (as claimed): entry i of the factorial cache is i! as a mathematical
\* integer, for every i in 0..l.
C7_EntriesAreFactorials ==
    \A i \in Filled : ValueOf(m_factorials[i + 1]) = Factorial(i)

\* C7 (amended): entry i of the factorial cache is i! modulo 2^32 for every i
\* in 0..l, which is i! itself for i <= 12; the cache has l + 1 entries and
\* does not change once the constructor has returned.
C7_CacheState ==
    /\ ra_pc # "new" => Len(m_factorials) = m_l + 1
    /\ \A i \in Filled :
          /\ m_factorials[i + 1] = Mod2to32(Factorial(i))
          /\ i <= 12 => ValueOf(m_factorials[i + 1]) = Factorial(i)

\* C7 (amended): the above in every state, and no step changes the cache of
\* a constructed instance.
C7_EntriesAreFactorialsMod2to32 ==
    /\ []C7_CacheState
    /\ [][ra_pc = "ready" => m_factorials' = m_factorials]_vars

\* an instance with l >= 13 has been constructed and used: 13! is past 2^32
C7_Witness ==
    /\ ra_pc = "ready"
    /\ m_l >= 13
    /\ m_N > 0
    /\ Len(Factorial(13)) > 2

====
